---- MODULE Spec2Model ----
(***************************************************************************)
(* Bike session state machine of the Lumo app (HomeScreen in               *)
(* src/app/(tabs)/index.tsx) with the service-area test of                 *)
(* src/components/geofence-map.tsx.                                        *)
(*                                                                         *)
(* React state is modelled by one variable per useState cell.  An async    *)
(* function is a task: one action per stretch of code between two awaits.  *)
(* A task carries the values its closure captured from the render in which *)
(* the user started it (isDevMode, connectedDevice, connectionState, and   *)
(* for the end-ride the three accumulators); sendCommand and               *)
(* completeRideEnd read those captured values, never the live state.       *)
(* Each action applies its state updates and the effects that React runs   *)
(* for the resulting render (lines 153-194) in one step.                   *)
(*                                                                         *)
(* Units: money in 1/10000 dollar, distance in 1/100000 mile, battery in   *)
(* 1/100 percent, so that every quantity of the source is an integer.      *)
(***************************************************************************)
EXTENDS Integers, Sequences, FiniteSets, TLC

\* ---------------------------------------------------------------- bounds
MaxRideTime == 3
MaxDrain == 4
MaxSubs == 3
BillingTicks == 60

\* ------------------------------------------------------ program constants
UnlockCost == 10000
PerMinuteRate == 1500
TurboCost == 10000
DistanceStep == 278
BatteryBase == 8500
BatteryDrain == 5

NULL == "null"
DEV_BIKE_DEVICE == "dev-bike-simulator"
LumoBike == "lumo-bike"
Devices == {DEV_BIKE_DEVICE, LumoBike}
BikeStates == {"INACTIVE", "ACTIVATED", "RIDING"}

\* -------------------------------------------------------------- geofence
\* vertices <<latitude, longitude>> in 1/10000 degree
geofencePolygon ==
    << <<445700, -1232820>>, <<445700, -1232680>>, <<445600, -1232680>>,
       <<445580, -1232750>>, <<445600, -1232820>> >>

EdgeCrossedNoFlip(xi, yi, xj, yj, lat, lng) ==
    /\ (yi > lng) # (yj > lng)
    /\ (lat - xi) * (yj - yi) < (xj - xi) * (lng - yi)

\* lat < (xj - xi) * (lng - yi) / (yj - yi) + xi, compared exactly
EdgeCrossed(xi, yi, xj, yj, lat, lng) ==
    /\ (yi > lng) # (yj > lng)
    /\ IF yj - yi > 0
       THEN (lat - xi) * (yj - yi) < (xj - xi) * (lng - yi)
       ELSE (lat - xi) * (yj - yi) > (xj - xi) * (lng - yi)

RECURSIVE RayCast(_, _, _, _, _, _)
RayCast(poly, i, j, inside, lat, lng) ==
    IF i > Len(poly) THEN inside
    ELSE RayCast(poly, i + 1, i,
                 IF EdgeCrossed(poly[i][1], poly[i][2], poly[j][1], poly[j][2], lat, lng)
                 THEN ~inside ELSE inside,
                 lat, lng)

PointInPolygonUnclosed(poly, lat, lng) ==
    IF Len(poly) = 0 THEN FALSE
    ELSE RayCast(poly, 2, 1, FALSE, lat, lng)

PointInPolygon(poly, lat, lng) ==
    IF Len(poly) = 0 THEN FALSE
    ELSE RayCast(poly, 1, Len(poly), FALSE, lat, lng)

isInsideGeofence(lat, lng) == PointInPolygon(geofencePolygon, lat, lng)

NoLocation == <<>>
InsidePoint == <<445650, -1232750>>
OutsidePoint == <<445800, -1232750>>
LocationFixes == {InsidePoint, OutsidePoint}

\* ----------------------------------------------------------------- state
VARIABLES
    connectedDevice, connectionState, bikeState, isDevMode,
    isLoading, isProcessing,
    rideTime, rideCost, distance, batteryLevel,
    turboActive, turboPurchased,
    rideSummaryData, showRideSummary,
    link,        \* the BLE link to the real bike is up
    subs,        \* onDeviceDisconnected callbacks registered and never removed
    location,    \* GeofenceMap's location state
    task,        \* the async function in flight, with its captured closure
    orphan,      \* an auto-start chain whose connect has already failed
    probe,       \* a polygon, a point and the answer of the containment test
    twin,        \* the log of a run and the position of its replay
    ev,          \* history: what the last step did
    alert,       \* history: the Alert the last step raised, or "none"
    atLeave      \* history: the accumulators when RIDING was last left

vars == << connectedDevice, connectionState, bikeState, isDevMode,
           isLoading, isProcessing, rideTime, rideCost, distance, batteryLevel,
           turboActive, turboPurchased, rideSummaryData, showRideSummary,
           link, subs, location, task, orphan, probe, twin,
           ev, alert, atLeave >>

NoProbe == [poly |-> <<>>, pt |-> <<0, 0>>, res |-> "none"]
NoTwin == [phase |-> "off", log |-> <<>>, pos |-> 0]
NoSummary == <<>>
NoRide == <<>>

Idle == [kind |-> "idle", pc |-> "-", dev |-> NULL,
         cDev |-> FALSE, cConn |-> NULL, cState |-> "disconnected",
         cTime |-> 0, cDist |-> 0, cCost |-> 0]

\* the end-ride Alert or the camera is on screen and takes every touch
PromptOpen == task.pc = "prompt"

\* The loading overlay (941-951, style 1614-1620) and the summary modal
\* (953-990) cover the non-riding screen: no touch reaches the bike selector.
ScreenCovered == isLoading \/ showRideSummary

\* the closure of the current render
Closure(kind, pc, dev) ==
    [kind |-> kind, pc |-> pc, dev |-> dev,
     cDev |-> isDevMode, cConn |-> connectedDevice, cState |-> connectionState,
     cTime |-> rideTime, cDist |-> distance, cCost |-> rideCost]

Init ==
    /\ connectedDevice = NULL
    /\ connectionState = "disconnected"
    /\ bikeState = "INACTIVE"
    /\ isDevMode = FALSE
    /\ isLoading = FALSE
    /\ isProcessing = FALSE
    /\ rideTime = 0
    /\ rideCost = 0
    /\ distance = 0
    /\ batteryLevel = BatteryBase
    /\ turboActive = FALSE
    /\ turboPurchased = FALSE
    /\ rideSummaryData = NoSummary
    /\ showRideSummary = FALSE
    /\ link = FALSE
    /\ subs = 0
    /\ location = NoLocation
    /\ task = Idle
    /\ orphan = Idle
    /\ probe = NoProbe
    /\ twin = NoTwin
    /\ ev = "init"
    /\ alert = "none"
    /\ atLeave = NoRide

\* ------------------------------------------------- effects (lines 153-194)
\* The effects with dependency bikeState run in the render that follows a
\* change of bikeState to b.  Not RIDING: the timer effect zeroes the
\* accumulators and the Turbo flags.  RIDING: the timer starts and the reset
\* effect clears the summary and the Turbo flags.
ResetsAccumulatorsNever(b) == FALSE

ResetsAccumulators(b) == b # bikeState /\ b # "RIDING"

ClearsTurbo(b) == b # bikeState

ClearsSummary(b) == b # bikeState /\ b = "RIDING"

SetBikeStateKeepingPurchase(b, bat, sum, active, purchased) ==
    /\ bikeState' = b
    /\ rideTime' = IF ResetsAccumulators(b) THEN 0 ELSE rideTime
    /\ rideCost' = IF ResetsAccumulators(b) THEN 0 ELSE rideCost
    /\ distance' = IF ResetsAccumulators(b) THEN 0 ELSE distance
    /\ turboActive' = IF ClearsTurbo(b) THEN FALSE ELSE active
    /\ turboPurchased' = turboPurchased
    /\ rideSummaryData' = IF ClearsSummary(b) THEN NoSummary ELSE sum
    /\ batteryLevel' = bat
    /\ atLeave' = IF b # bikeState /\ bikeState = "RIDING"
                  THEN <<rideTime, distance, rideCost>>
                  ELSE IF b # bikeState /\ b = "RIDING" THEN NoRide ELSE atLeave

\* setBikeState(b) followed by the effects; the battery, the summary and the
\* Turbo flags are given by the caller (bat, sum, active, purchased) as it set them.
SetBikeState(b, bat, sum, active, purchased) ==
    /\ bikeState' = b
    /\ rideTime' = IF ResetsAccumulators(b) THEN 0 ELSE rideTime
    /\ rideCost' = IF ResetsAccumulators(b) THEN 0 ELSE rideCost
    /\ distance' = IF ResetsAccumulators(b) THEN 0 ELSE distance
    /\ turboActive' = IF ClearsTurbo(b) THEN FALSE ELSE active
    /\ turboPurchased' = IF ClearsTurbo(b) THEN FALSE ELSE purchased
    /\ rideSummaryData' = IF ClearsSummary(b) THEN NoSummary ELSE sum
    /\ batteryLevel' = bat
    /\ atLeave' = IF b # bikeState /\ bikeState = "RIDING"
                  THEN <<rideTime, distance, rideCost>>
                  ELSE IF b # bikeState /\ b = "RIDING" THEN NoRide ELSE atLeave

\* a command's effect on bikeState (switch at lines 406-411 and 432-437)
CommandState(command) ==
    CASE command = "A" -> "ACTIVATED"
      [] command = "S" -> "RIDING"
      [] command = "T" -> "ACTIVATED"
      [] command = "D" -> "INACTIVE"

ApplyCommand(command) ==
    SetBikeState(CommandState(command), batteryLevel, rideSummaryData, turboActive, turboPurchased)

\* the way sendCommand goes for the closure a task captured
SendBranch(tk) ==
    IF tk.cDev THEN "sim"
    ELSE IF tk.cConn = NULL \/ tk.cState # "connected" THEN "throw"
    ELSE "write"

rideVars == << rideTime, rideCost, distance, batteryLevel, turboActive,
               turboPurchased, rideSummaryData, atLeave >>

\* ------------------------------------------------- ride timer (153-183)
TickCostWithoutTurbo(newTime, purchased) ==
    UnlockCost + (newTime * PerMinuteRate) \div 60

TickCost(newTime, purchased) ==
    UnlockCost + (newTime * PerMinuteRate) \div 60 + (IF purchased THEN TurboCost ELSE 0)

TickBatteryUnfloored(prevBattery) == prevBattery - BatteryDrain

TickBattery(prevBattery) ==
    IF prevBattery - BatteryDrain > 0 THEN prevBattery - BatteryDrain ELSE 0

TickDistanceWithTurbo(prevDist) ==
    prevDist + DistanceStep + (IF turboPurchased THEN DistanceStep ELSE 0)

TickDistance(prevDist) == prevDist + DistanceStep

\* the battery is followed within drain ticks of full and of empty
DrainWindow(drain) ==
    \/ BatteryBase - batteryLevel < drain * BatteryDrain
    \/ batteryLevel <= drain * BatteryDrain

TickWhenever(bound, drain) ==
    /\ rideTime < bound
    /\ DrainWindow(drain)
    /\ rideTime' = rideTime + 1
    /\ rideCost' = TickCost(rideTime + 1, turboPurchased)
    /\ distance' = TickDistance(distance)
    /\ batteryLevel' = TickBattery(batteryLevel)
    /\ ev' = "tick"
    /\ alert' = "none"
    /\ UNCHANGED << connectedDevice, connectionState, bikeState, isDevMode,
                    isLoading, isProcessing, turboActive, turboPurchased,
                    rideSummaryData, showRideSummary, link, subs, location, orphan,
                    task, atLeave,
                    probe, twin >>

\* one firing of the interval of line 157, in a ride of at most bound ticks
Tick(bound, drain) ==
    /\ bikeState = "RIDING"
    /\ rideTime < bound
    /\ DrainWindow(drain)
    /\ rideTime' = rideTime + 1
    /\ rideCost' = TickCost(rideTime + 1, turboPurchased)
    /\ distance' = TickDistance(distance)
    /\ batteryLevel' = TickBattery(batteryLevel)
    /\ ev' = "tick"
    /\ alert' = "none"
    /\ UNCHANGED << connectedDevice, connectionState, bikeState, isDevMode,
                    isLoading, isProcessing, turboActive, turboPurchased,
                    rideSummaryData, showRideSummary, link, subs, location, orphan,
                    task, atLeave,
                    probe, twin >>

\* ------------------------------------------------ handleBuyTurbo (640-657)
\* The button is on the riding screen only.
TurboNeverRejected == FALSE

TurboRejected == turboActive

handleBuyTurboToggles ==
    /\ bikeState = "RIDING"
    /\ ~PromptOpen
    /\ alert' = "none"
    /\ IF TurboRejected
       THEN /\ ev' = "turboRejected"
            /\ turboPurchased' = FALSE
            /\ UNCHANGED << rideCost, turboActive >>
       ELSE /\ rideCost' = rideCost + TurboCost
            /\ turboPurchased' = TRUE
            /\ turboActive' = TRUE
            /\ ev' = "turboBought"
    /\ UNCHANGED << connectedDevice, connectionState, bikeState, isDevMode,
                    isLoading, isProcessing, rideTime, distance, batteryLevel,
                    rideSummaryData, showRideSummary, link, subs, location, orphan,
                    task, atLeave,
                    probe, twin >>

handleBuyTurbo ==
    /\ bikeState = "RIDING"
    /\ ~PromptOpen
    /\ alert' = "none"
    /\ IF TurboRejected
       THEN /\ ev' = "turboRejected"
            /\ UNCHANGED << rideCost, turboPurchased, turboActive >>
       ELSE /\ rideCost' = rideCost + TurboCost
            /\ turboPurchased' = TRUE
            /\ turboActive' = TRUE
            /\ ev' = "turboBought"
    /\ UNCHANGED << connectedDevice, connectionState, bikeState, isDevMode,
                    isLoading, isProcessing, rideTime, distance, batteryLevel,
                    rideSummaryData, showRideSummary, link, subs, location, orphan,
                    task, atLeave,
                    probe, twin >>

\* ------------------------------------------------------ connect (256-396)
\* The device card is on the non-riding screen.  Both paths set isLoading and
\* 'connecting'; the real path also clears isDevMode (line 316).
connect(device) ==
    /\ bikeState # "RIDING"
    /\ task.kind = "idle"
    /\ ~PromptOpen
    /\ ~ScreenCovered
    /\ device # DEV_BIKE_DEVICE => subs < MaxSubs
    /\ isLoading' = TRUE
    /\ connectionState' = "connecting"
    /\ isDevMode' = IF device = DEV_BIKE_DEVICE THEN isDevMode ELSE FALSE
    /\ task' = Closure("connect", "connecting", device)
    /\ ev' = "connectStart"
    /\ alert' = "none"
    /\ UNCHANGED << connectedDevice, bikeState, isProcessing, showRideSummary,
                    link, subs, location, orphan,
                    probe, twin >>
    /\ UNCHANGED rideVars

connect_resolved_devFlagUnset ==
    /\ task.kind = "connect" /\ task.pc = "connecting"
    /\ connectedDevice' = task.dev
    /\ connectionState' = "connected"
    /\ IF task.dev = DEV_BIKE_DEVICE
       THEN UNCHANGED << isDevMode, link, subs >>
       ELSE /\ link' = TRUE
            /\ subs' = subs + 1
            /\ UNCHANGED isDevMode
    /\ task' = [task EXCEPT !.kind = "autoStart", !.pc = "scheduled"]
    /\ ev' = "connected"
    /\ alert' = "none"
    /\ UNCHANGED << bikeState, isLoading, isProcessing, showRideSummary, location, orphan,
                    probe, twin >>
    /\ UNCHANGED rideVars

\* lines 265-286 and 324-358: the connection is up, the auto-start is scheduled
connect_resolved ==
    /\ task.kind = "connect" /\ task.pc = "connecting"
    /\ connectedDevice' = task.dev
    /\ connectionState' = "connected"
    /\ IF task.dev = DEV_BIKE_DEVICE
       THEN /\ isDevMode' = TRUE
            /\ UNCHANGED << link, subs >>
       ELSE /\ link' = TRUE
            /\ subs' = subs + 1
            /\ UNCHANGED isDevMode
    /\ task' = [task EXCEPT !.kind = "autoStart", !.pc = "scheduled"]
    /\ ev' = "connected"
    /\ alert' = "none"
    /\ UNCHANGED << bikeState, isLoading, isProcessing, showRideSummary, location, orphan,
                    probe, twin >>
    /\ UNCHANGED rideVars

\* lines 383-395: connectToDevice or the discovery rejected
connect_rejected ==
    /\ task.kind = "connect" /\ task.pc = "connecting"
    /\ task.dev # DEV_BIKE_DEVICE
    /\ connectionState' = "disconnected"
    /\ connectedDevice' = NULL
    /\ isLoading' = FALSE
    /\ task' = Idle
    /\ ev' = "connectFailed"
    /\ alert' = "Connection Failed"
    /\ UNCHANGED << bikeState, isDevMode, isProcessing, showRideSummary,
                    link, subs, location, orphan,
                    probe, twin >>
    /\ UNCHANGED rideVars

\* ---------------------------------------------- auto-start (270-286, 327-338)
AutoStartFailedStillLoading(why) ==
    /\ task' = Idle
    /\ ev' = why
    /\ alert' = IF task.dev = DEV_BIKE_DEVICE THEN "Error" ELSE "none"
    /\ UNCHANGED << connectedDevice, connectionState, bikeState, isDevMode,
                    isLoading, isProcessing, showRideSummary, link, subs,
                    location, orphan, probe, twin >>
    /\ UNCHANGED rideVars

\* the catch and finally of the chain; only the dev path raises an Alert
AutoStartFailed(why) ==
    /\ isLoading' = FALSE
    /\ task' = Idle
    /\ ev' = why
    /\ alert' = IF task.dev = DEV_BIKE_DEVICE THEN "Error" ELSE "none"
    /\ UNCHANGED << connectedDevice, connectionState, bikeState, isDevMode,
                    isProcessing, showRideSummary, link, subs, location, orphan,
                    probe, twin >>
    /\ UNCHANGED rideVars

\* sendCommand up to its first await, for the closure of the task
IssueCommand(command, failed) ==
    IF SendBranch(task) = "throw"
    THEN failed
    ELSE /\ task' = [task EXCEPT !.pc = command \o "_" \o SendBranch(task)]
         /\ ev' = IF SendBranch(task) = "write" THEN "write" \o command
                                                     ELSE "sim" \o command
         /\ alert' = "none"
         /\ UNCHANGED << connectedDevice, connectionState, bikeState, isDevMode,
                         isLoading, showRideSummary, link, subs, location, orphan,
                    probe, twin >>
         /\ UNCHANGED rideVars

\* the timer of line 271/328 fires: sendCommand('A')
autoStart_activate ==
    /\ task.kind = "autoStart" /\ task.pc = "scheduled"
    /\ IssueCommand("A", AutoStartFailed("autoStartNotConnected"))
    /\ UNCHANGED isProcessing

\* a write is acknowledged only over a live link to the captured device
Acknowledged(tk) ==
    \/ SendBranch(tk) = "sim"
    \/ SendBranch(tk) = "write" /\ tk.cConn # DEV_BIKE_DEVICE /\ link

autoStart_activated ==
    /\ task.kind = "autoStart" /\ task.pc \in {"A_sim", "A_write"}
    /\ Acknowledged(task)
    /\ ApplyCommand("A")
    /\ task' = [task EXCEPT !.pc = "settle"]
    /\ ev' = "ackA"
    /\ alert' = "none"
    /\ UNCHANGED << connectedDevice, connectionState, isDevMode, isLoading,
                    isProcessing, showRideSummary, link, subs, location, orphan,
                    probe, twin >>

\* after the 500 ms of line 274/331: sendCommand('S')
autoStart_start ==
    /\ task.kind = "autoStart" /\ task.pc = "settle"
    /\ IssueCommand("S", AutoStartFailed("autoStartNotConnected"))
    /\ UNCHANGED isProcessing

autoStart_started ==
    /\ task.kind = "autoStart" /\ task.pc \in {"S_sim", "S_write"}
    /\ Acknowledged(task)
    /\ ApplyCommand("S")
    /\ isLoading' = FALSE
    /\ task' = Idle
    /\ ev' = "ackS"
    /\ alert' = "none"
    /\ UNCHANGED << connectedDevice, connectionState, isDevMode,
                    isProcessing, showRideSummary, link, subs, location, orphan,
                    probe, twin >>

autoStart_write_retried ==
    /\ task.kind = "autoStart" /\ task.pc \in {"A_write", "S_write"}
    /\ ev' = "autoStartWriteFailed"
    /\ alert' = "none"
    /\ UNCHANGED << connectedDevice, connectionState, bikeState, isDevMode,
                    isLoading, isProcessing, showRideSummary, link, subs,
                    location, task, orphan,
                    probe, twin >>
    /\ UNCHANGED rideVars

autoStart_write_failed ==
    /\ task.kind = "autoStart" /\ task.pc \in {"A_write", "S_write"}
    /\ AutoStartFailed("autoStartWriteFailed")
    /\ UNCHANGED isProcessing

\* ------------------------------------ the tail of connect fails (363-395)
\* services() or characteristics() rejects after the auto-start timer was set:
\* the catch of 383-395 runs, the overlay goes, and the timer stays scheduled.
\* The chain goes on as orphan; one orphan is followed at a time.
connect_services_failed ==
    /\ task.kind = "autoStart"
    /\ task.dev # DEV_BIKE_DEVICE
    /\ orphan.kind = "idle"
    /\ connectionState' = "disconnected"
    /\ connectedDevice' = NULL
    /\ isLoading' = FALSE
    /\ orphan' = task
    /\ task' = Idle
    /\ ev' = "servicesFailed"
    /\ alert' = "Connection Failed"
    /\ UNCHANGED << bikeState, isDevMode, isProcessing, showRideSummary,
                    link, subs, location,
                    probe, twin >>
    /\ UNCHANGED rideVars

\* the catch and finally of the orphan chain (333-337): no Alert
OrphanFailed(why) ==
    /\ isLoading' = FALSE
    /\ orphan' = Idle
    /\ ev' = why
    /\ alert' = "none"
    /\ UNCHANGED << connectedDevice, connectionState, bikeState, isDevMode,
                    isProcessing, showRideSummary, link, subs, location, task,
                    probe, twin >>
    /\ UNCHANGED rideVars

\* sendCommand up to its first await, for the closure of the orphan
OrphanIssueCommand(command) ==
    IF SendBranch(orphan) = "throw"
    THEN OrphanFailed("autoStartNotConnected")
    ELSE /\ orphan' = [orphan EXCEPT !.pc = command \o "_" \o SendBranch(orphan)]
         /\ ev' = IF SendBranch(orphan) = "write" THEN "write" \o command
                                                       ELSE "sim" \o command
         /\ alert' = "none"
         /\ UNCHANGED << connectedDevice, connectionState, bikeState, isDevMode,
                         isLoading, isProcessing, showRideSummary, link, subs,
                         location, task,
                    probe, twin >>
         /\ UNCHANGED rideVars

orphan_activate ==
    /\ orphan.kind = "autoStart" /\ orphan.pc = "scheduled"
    /\ OrphanIssueCommand("A")

orphan_activated ==
    /\ orphan.kind = "autoStart" /\ orphan.pc \in {"A_sim", "A_write"}
    /\ Acknowledged(orphan)
    /\ ApplyCommand("A")
    /\ orphan' = [orphan EXCEPT !.pc = "settle"]
    /\ ev' = "ackA"
    /\ alert' = "none"
    /\ UNCHANGED << connectedDevice, connectionState, isDevMode, isLoading,
                    isProcessing, showRideSummary, link, subs, location, task,
                    probe, twin >>

orphan_start ==
    /\ orphan.kind = "autoStart" /\ orphan.pc = "settle"
    /\ OrphanIssueCommand("S")

orphan_started ==
    /\ orphan.kind = "autoStart" /\ orphan.pc \in {"S_sim", "S_write"}
    /\ Acknowledged(orphan)
    /\ ApplyCommand("S")
    /\ isLoading' = FALSE
    /\ orphan' = Idle
    /\ ev' = "ackS"
    /\ alert' = "none"
    /\ UNCHANGED << connectedDevice, connectionState, isDevMode,
                    isProcessing, showRideSummary, link, subs, location, task,
                    probe, twin >>

orphan_write_failed ==
    /\ orphan.kind = "autoStart" /\ orphan.pc \in {"A_write", "S_write"}
    /\ OrphanFailed("autoStartWriteFailed")

\* ---------------------------------------------------- end of ride (485-588)
\* handleEndRide: the dev Alert or the camera opens; the callbacks it holds
\* belong to this render.
handleEndRide ==
    /\ bikeState = "RIDING"
    /\ task.kind = "idle"
    /\ ~isProcessing
    /\ ~PromptOpen
    /\ task' = Closure("endRide", "prompt", NULL)
    /\ ev' = "endRideAsked"
    /\ alert' = "none"
    /\ UNCHANGED << connectedDevice, connectionState, bikeState, isDevMode,
                    isLoading, isProcessing, showRideSummary, link, subs, location, orphan,
                    probe, twin >>
    /\ UNCHANGED rideVars

\* 'Continue Riding', or the camera permission is refused
endRide_dismissed ==
    /\ task.kind = "endRide" /\ task.pc = "prompt"
    /\ task' = Idle
    /\ ev' = "endRideDismissed"
    /\ alert' = "none"
    /\ UNCHANGED << connectedDevice, connectionState, bikeState, isDevMode,
                    isLoading, isProcessing, showRideSummary, link, subs, location, orphan,
                    probe, twin >>
    /\ UNCHANGED rideVars

EndRideFailedWithSummary(why) ==
    /\ isProcessing' = FALSE
    /\ isLoading' = FALSE
    /\ showRideSummary' = TRUE
    /\ task' = Idle
    /\ ev' = why
    /\ alert' = "Error"
    /\ UNCHANGED << connectedDevice, connectionState, bikeState, isDevMode,
                    link, subs, location, orphan,
                    probe, twin >>
    /\ UNCHANGED rideVars

\* the catch and finally of completeRideEnd (563-569)
EndRideFailed(why) ==
    /\ isProcessing' = FALSE
    /\ isLoading' = FALSE
    /\ task' = Idle
    /\ ev' = why
    /\ alert' = "Error"
    /\ UNCHANGED << connectedDevice, connectionState, bikeState, isDevMode,
                    showRideSummary, link, subs, location, orphan,
                    probe, twin >>
    /\ UNCHANGED rideVars

\* completeRideEnd up to the await of sendCommand('T')
completeRideEnd ==
    /\ task.kind = "endRide" /\ task.pc = "prompt"
    /\ IF SendBranch(task) = "throw"
       THEN EndRideFailed("endRideNotConnected")
       ELSE /\ isProcessing' = TRUE
            /\ isLoading' = TRUE
            /\ task' = [task EXCEPT !.pc = "T_" \o SendBranch(task)]
            /\ ev' = IF SendBranch(task) = "write" THEN "writeT" ELSE "simT"
            /\ alert' = "none"
            /\ UNCHANGED << connectedDevice, connectionState, bikeState, isDevMode,
                            showRideSummary, link, subs, location, orphan,
                    probe, twin >>
            /\ UNCHANGED rideVars

\* lines 501-505: the camera returned a photo (real mode, or 'Take Photo' of
\* the dev Alert)
takeBikePhoto_captured == completeRideEnd

\* line 582: 'Skip (Dev Mode)', a button of the Alert that handleEndRide
\* builds only when its render has isDevMode
endRide_skipped ==
    /\ task.cDev
    /\ completeRideEnd

completeRideEnd_stopped ==
    /\ task.kind = "endRide" /\ task.pc \in {"T_sim", "T_write"}
    /\ Acknowledged(task)
    /\ ApplyCommand("T")
    /\ task' = [task EXCEPT !.pc = "settle"]
    /\ ev' = "ackT"
    /\ alert' = "none"
    /\ UNCHANGED << connectedDevice, connectionState, isDevMode, isLoading,
                    isProcessing, showRideSummary, link, subs, location, orphan,
                    probe, twin >>

\* after the 500 ms of line 535: sendCommand('D')
completeRideEnd_deactivate ==
    /\ task.kind = "endRide" /\ task.pc = "settle"
    /\ IssueCommand("D", EndRideFailed("endRideNotConnected"))
    /\ SendBranch(task) # "throw" => UNCHANGED isProcessing

completeRideEnd_deactivated ==
    /\ task.kind = "endRide" /\ task.pc \in {"D_sim", "D_write"}
    /\ Acknowledged(task)
    /\ ApplyCommand("D")
    /\ task' = [task EXCEPT !.pc = "summary"]
    /\ ev' = "ackD"
    /\ alert' = "none"
    /\ UNCHANGED << connectedDevice, connectionState, isDevMode, isLoading,
                    isProcessing, showRideSummary, link, subs, location, orphan,
                    probe, twin >>

\* the summary holds what the closure captured (542-546)
Summary(tk) == <<tk.cTime, tk.cDist, tk.cCost>>

RideEndBatteryFull == BatteryBase + BatteryDrain

\* setBatteryLevel(85) of line 556
RideEndBattery == BatteryBase

completeRideEnd_finished_busy ==
    /\ task.kind = "endRide" /\ task.pc = "summary"
    /\ connectedDevice' = NULL
    /\ connectionState' = "disconnected"
    /\ isDevMode' = FALSE
    /\ SetBikeState("INACTIVE", BatteryBase, Summary(task), FALSE, FALSE)
    /\ showRideSummary' = TRUE
    /\ task' = Idle
    /\ ev' = "rideEnded"
    /\ alert' = "none"
    /\ UNCHANGED << isProcessing, isLoading, link, subs, location, orphan,
                    probe, twin >>

\* lines 541-562 and the finally
completeRideEnd_finished ==
    /\ task.kind = "endRide" /\ task.pc = "summary"
    /\ connectedDevice' = NULL
    /\ connectionState' = "disconnected"
    /\ isDevMode' = FALSE
    /\ SetBikeState("INACTIVE", RideEndBattery, Summary(task), FALSE, FALSE)
    /\ showRideSummary' = TRUE
    /\ isProcessing' = FALSE
    /\ isLoading' = FALSE
    /\ task' = Idle
    /\ ev' = "rideEnded"
    /\ alert' = "none"
    /\ UNCHANGED << link, subs, location, orphan,
                    probe, twin >>

completeRideEnd_write_ignored ==
    /\ task.kind = "endRide" /\ task.pc \in {"T_write", "D_write"}
    /\ task' = [task EXCEPT !.pc = IF task.pc = "T_write" THEN "settle" ELSE "summary"]
    /\ ev' = "endRideWriteFailed"
    /\ alert' = "none"
    /\ UNCHANGED << connectedDevice, connectionState, bikeState, isDevMode,
                    isLoading, isProcessing, showRideSummary, link, subs,
                    location, orphan, probe, twin >>
    /\ UNCHANGED rideVars

completeRideEnd_write_failed ==
    /\ task.kind = "endRide" /\ task.pc \in {"T_write", "D_write"}
    /\ EndRideFailed("endRideWriteFailed")

\* 'Done' on the summary modal (957, 975)
closeSummary ==
    /\ showRideSummary
    /\ showRideSummary' = FALSE
    /\ ev' = "summaryClosed"
    /\ alert' = "none"
    /\ UNCHANGED << connectedDevice, connectionState, bikeState, isDevMode,
                    isLoading, isProcessing, link, subs, location, task, orphan,
                    probe, twin >>
    /\ UNCHANGED rideVars

\* the handlers a link drop runs: every callback that a connect registered
\* at line 341, none of which is ever removed
HandlersRun == subs

\* ------------------------------------------- onDeviceDisconnected (341-358)
\* The link to the real bike drops; every callback registered for it runs.
LinkLostBikeStateKept == bikeState

LinkLostBikeState == "INACTIVE"

onDeviceDisconnected ==
    /\ link
    /\ link' = FALSE
    /\ IF subs > 0
       THEN /\ connectionState' = "disconnected"
            /\ connectedDevice' = NULL
            /\ SetBikeState(LinkLostBikeState, batteryLevel, rideSummaryData,
                            turboActive, turboPurchased)
            /\ ev' = "linkLost"
            /\ alert' = "Bike Disconnected"
       ELSE /\ ev' = "linkDown"
            /\ alert' = "none"
            /\ UNCHANGED << connectedDevice, connectionState, bikeState >>
            /\ UNCHANGED rideVars
    /\ UNCHANGED << isDevMode, isLoading, isProcessing, showRideSummary,
                    subs, location, task, orphan,
                    probe, twin >>

\* ------------------------------------- location watcher (geofence-map 104-127)
onLocation(fix) ==
    /\ location # fix
    /\ location' = fix
    /\ ev' = "location"
    /\ alert' = "none"
    /\ UNCHANGED << connectedDevice, connectionState, bikeState, isDevMode,
                    isLoading, isProcessing, showRideSummary, link, subs, task,
                    orphan,
                    probe, twin >>
    /\ UNCHANGED rideVars

\* -------------------------------------------------------------------- Next
Next ==
    \/ \E d \in Devices : connect(d)
    \/ connect_resolved
    \/ connect_rejected
    \/ autoStart_activate
    \/ autoStart_activated
    \/ autoStart_start
    \/ autoStart_started
    \/ autoStart_write_failed
    \/ Tick(MaxRideTime, MaxDrain)
    \/ handleBuyTurbo
    \/ handleEndRide
    \/ endRide_dismissed
    \/ takeBikePhoto_captured
    \/ endRide_skipped
    \/ completeRideEnd_stopped
    \/ completeRideEnd_deactivate
    \/ completeRideEnd_deactivated
    \/ completeRideEnd_finished
    \/ completeRideEnd_write_failed
    \/ closeSummary
    \/ onDeviceDisconnected
    \/ \E fix \in LocationFixes : onLocation(fix)

Spec == Init /\ [][Next]_vars

\* ------------------------------------------- with a failing tail of connect
\* Next, and the connects whose services() enumeration rejects.
NextTail ==
    \/ Next
    \/ connect_services_failed
    \/ orphan_activate
    \/ orphan_activated
    \/ orphan_start
    \/ orphan_started
    \/ orphan_write_failed

SpecTail == Init /\ [][NextTail]_vars

\* ------------------------------------------------- the connect is scheduled
\* connectToDevice resolves or rejects, the timers of the auto-start chain
\* fire and each awaited command resolves or rejects.
ConnectProgress ==
    \/ connect_resolved
    \/ connect_rejected
    \/ autoStart_activate
    \/ autoStart_activated
    \/ autoStart_start
    \/ autoStart_started
    \/ autoStart_write_failed

SpecConnectFair == Init /\ [][Next]_vars /\ WF_vars(ConnectProgress)

\* ------------------------------------------------ the end-ride is scheduled
\* The timers of completeRideEnd fire and each awaited write resolves or
\* rejects: a step of a started end-ride that stays possible is taken.
EndRideProgress ==
    \/ completeRideEnd_stopped
    \/ completeRideEnd_deactivate
    \/ completeRideEnd_deactivated
    \/ completeRideEnd_finished
    \/ completeRideEnd_write_failed

SpecEndRideFair == Init /\ [][Next]_vars /\ WF_vars(EndRideProgress)

\* ------------------------------------------------------ billing of one ride
\* A dev-bike ride that has just started; the timer and the Turbo button only.
InitRiding ==
    /\ connectedDevice = DEV_BIKE_DEVICE
    /\ connectionState = "connected"
    /\ bikeState = "RIDING"
    /\ isDevMode = TRUE
    /\ isLoading = FALSE
    /\ isProcessing = FALSE
    /\ rideTime = 0
    /\ rideCost = 0
    /\ distance = 0
    /\ batteryLevel = BatteryBase
    /\ turboActive = FALSE
    /\ turboPurchased = FALSE
    /\ rideSummaryData = NoSummary
    /\ showRideSummary = FALSE
    /\ link = FALSE
    /\ subs = 0
    /\ location = NoLocation
    /\ task = Idle
    /\ orphan = Idle
    /\ probe = NoProbe
    /\ twin = NoTwin
    /\ ev = "ackS"
    /\ alert = "none"
    /\ atLeave = NoRide

NextBilling ==
    \/ Tick(BillingTicks, BillingTicks)
    \/ handleBuyTurbo

SpecBilling == InitRiding /\ [][NextBilling]_vars

\* ------------------------------------------------------- a drained battery
\* The session after a ride on the real bike that a link loss ended with the
\* battery at most two ticks from empty (the battery is not reset by a link
\* loss).  The real bike was connected once, from a dev-mode render.
DrainedLevels == {0, BatteryDrain, 2 * BatteryDrain}

InitDrained ==
    /\ connectedDevice = NULL
    /\ connectionState = "disconnected"
    /\ bikeState = "INACTIVE"
    /\ isDevMode = FALSE
    /\ isLoading = FALSE
    /\ isProcessing = FALSE
    /\ rideTime = 0
    /\ rideCost = 0
    /\ distance = 0
    /\ batteryLevel \in DrainedLevels
    /\ turboActive = FALSE
    /\ turboPurchased = FALSE
    /\ rideSummaryData = NoSummary
    /\ showRideSummary = FALSE
    /\ link = FALSE
    /\ subs = 1
    /\ location = NoLocation
    /\ task = Idle
    /\ orphan = Idle
    /\ probe = NoProbe
    /\ twin = NoTwin
    /\ ev = "linkLost"
    /\ alert = "Bike Disconnected"
    /\ atLeave = LET t == (BatteryBase - batteryLevel) \div BatteryDrain
                 IN <<t, t * DistanceStep, TickCost(t, FALSE)>>

SpecDrained == InitDrained /\ [][Next]_vars

\* ------------------------------------------------- the containment test
\* isInsideGeofence evaluated for one polygon and one point (the status text
\* of lines 256-262 calls it for the current location).
MaxCoord == 6

Triangle == << <<0, 0>>, <<6, 0>>, <<0, 6>> >>
Chevron == << <<0, 0>>, <<3, 2>>, <<6, 0>>, <<3, 6>> >>
Corner == << <<0, 0>>, <<6, 0>>, <<6, 2>>, <<2, 2>>, <<2, 6>>, <<0, 6>> >>
CornerReversed == << <<0, 6>>, <<2, 6>>, <<2, 2>>, <<6, 2>>, <<6, 0>>, <<0, 0>> >>
SmallPolygons == {Triangle, Chevron, Corner, CornerReversed}
DegeneratePolygons ==
    { <<>>, << <<3, 3>> >>, << <<3, 0>>, <<3, 6>> >>, << <<0, 0>>, <<6, 6>> >> }

SmallGrid == (-1 .. MaxCoord + 1) \X (-1 .. MaxCoord + 1)

\* every 1/1000 degree over the bounding box of the service area and one
\* step around it
AreaGrid ==
    { <<445570 + 10 * a, -1232830 + 10 * b>> : a \in 0 .. 14, b \in 0 .. 16 }

ProbeInputs ==
    {[poly |-> geofencePolygon, pt |-> q, res |-> "none"] : q \in AreaGrid}
    \cup {[poly |-> p, pt |-> q, res |-> "none"] :
              p \in SmallPolygons \cup DegeneratePolygons, q \in SmallGrid}

progVars == << connectedDevice, connectionState, bikeState, isDevMode,
               isLoading, isProcessing, rideTime, rideCost, distance,
               batteryLevel, turboActive, turboPurchased, rideSummaryData,
               showRideSummary, link, subs, location, task, orphan,
               ev, alert, atLeave >>

InitGeofence ==
    /\ connectedDevice = NULL
    /\ connectionState = "disconnected"
    /\ bikeState = "INACTIVE"
    /\ isDevMode = FALSE
    /\ isLoading = FALSE
    /\ isProcessing = FALSE
    /\ rideTime = 0
    /\ rideCost = 0
    /\ distance = 0
    /\ batteryLevel = BatteryBase
    /\ turboActive = FALSE
    /\ turboPurchased = FALSE
    /\ rideSummaryData = NoSummary
    /\ showRideSummary = FALSE
    /\ link = FALSE
    /\ subs = 0
    /\ location = NoLocation
    /\ task = Idle
    /\ orphan = Idle
    /\ probe \in ProbeInputs
    /\ twin = NoTwin
    /\ ev = "init"
    /\ alert = "none"
    /\ atLeave = NoRide

callIsInsideGeofence ==
    /\ probe.res = "none"
    /\ probe' = [probe EXCEPT !.res =
                     IF PointInPolygon(probe.poly, probe.pt[1], probe.pt[2])
                     THEN "inside" ELSE "outside"]
    /\ UNCHANGED progVars
    /\ UNCHANGED twin

NextGeofence == callIsInsideGeofence

SpecGeofence == InitGeofence /\ [][NextGeofence]_vars

\* Reference membership: the winding number of the polygon around the point,
\* counted on the edges that cross the point's latitude (a ray along the
\* longitude axis, the other axis than the one isInsideGeofence casts along).
IsLeft(a, b, q) ==
    (b[2] - a[2]) * (q[1] - a[1]) - (q[2] - a[2]) * (b[1] - a[1])

Successor(poly, i) == IF i = Len(poly) THEN 1 ELSE i + 1

EdgeWinding(a, b, q) ==
    IF a[1] <= q[1]
    THEN IF b[1] > q[1] /\ IsLeft(a, b, q) > 0 THEN 1 ELSE 0
    ELSE IF b[1] <= q[1] /\ IsLeft(a, b, q) < 0 THEN -1 ELSE 0

RECURSIVE WindingFrom(_, _, _)
WindingFrom(poly, i, q) ==
    IF i > Len(poly) THEN 0
    ELSE EdgeWinding(poly[i], poly[Successor(poly, i)], q) + WindingFrom(poly, i + 1, q)

Between(u, v, w) == (u <= w /\ w <= v) \/ (v <= w /\ w <= u)

OnBoundary(poly, q) ==
    \E i \in 1 .. Len(poly) :
        LET a == poly[i]
            b == poly[Successor(poly, i)]
        IN /\ IsLeft(a, b, q) = 0
           /\ Between(a[1], b[1], q[1])
           /\ Between(a[2], b[2], q[2])

StrictlyInside(poly, q) == ~OnBoundary(poly, q) /\ WindingFrom(poly, 1, q) # 0
StrictlyOutside(poly, q) == ~OnBoundary(poly, q) /\ WindingFrom(poly, 1, q) = 0

\* ------------------------------------------- the simulator against the bike
\* A session with the real bike in which the peripheral accepts the
\* connection, acknowledges every write and keeps the link is recorded step
\* by step; the app is then started afresh and the same operations, timers
\* and acknowledgements are replayed with the simulated bike.
MaxLog == 18

Observed == {"init", "seen"}

\* sendCommand: a simulated command and a written one are the same command
Label(e) ==
    CASE e \in {"writeA", "simA"} -> "cmdA"
      [] e \in {"writeS", "simS"} -> "cmdS"
      [] e \in {"writeT", "simT"} -> "cmdT"
      [] e \in {"writeD", "simD"} -> "cmdD"
      [] OTHER -> e

\* what the screen shows of the session
Obs == << connectionState, bikeState, rideTime, rideCost, distance, batteryLevel >>

InitTwin ==
    /\ connectedDevice = NULL
    /\ connectionState = "disconnected"
    /\ bikeState = "INACTIVE"
    /\ isDevMode = FALSE
    /\ isLoading = FALSE
    /\ isProcessing = FALSE
    /\ rideTime = 0
    /\ rideCost = 0
    /\ distance = 0
    /\ batteryLevel = BatteryBase
    /\ turboActive = FALSE
    /\ turboPurchased = FALSE
    /\ rideSummaryData = NoSummary
    /\ showRideSummary = FALSE
    /\ link = FALSE
    /\ subs = 0
    /\ location = NoLocation
    /\ task = Idle
    /\ orphan = Idle
    /\ probe = NoProbe
    /\ twin = [phase |-> "record", log |-> <<>>, pos |-> 0]
    /\ ev = "init"
    /\ alert = "none"
    /\ atLeave = NoRide

\* the steps both bikes share: timers, acknowledgements, the rider
SessionStep ==
    \/ connect_resolved
    \/ autoStart_activate
    \/ autoStart_activated
    \/ autoStart_start
    \/ autoStart_started
    \/ Tick(MaxRideTime, MaxDrain)
    \/ handleBuyTurbo
    \/ handleEndRide
    \/ endRide_dismissed
    \/ takeBikePhoto_captured
    \/ completeRideEnd_stopped
    \/ completeRideEnd_deactivate
    \/ completeRideEnd_deactivated
    \/ completeRideEnd_finished
    \/ closeSummary

RecordStep ==
    /\ twin.phase = "record"
    /\ ev \in Observed
    /\ Len(twin.log) < MaxLog
    /\ (connect(LumoBike) \/ SessionStep)

\* the step just taken is written down
Observe ==
    /\ twin.phase = "record"
    /\ ev \notin Observed
    /\ twin' = [twin EXCEPT !.log = Append(@, << Label(ev), Obs >>)]
    /\ ev' = "seen"
    /\ UNCHANGED << connectedDevice, connectionState, bikeState, isDevMode,
                    isLoading, isProcessing, rideTime, rideCost, distance,
                    batteryLevel, turboActive, turboPurchased, rideSummaryData,
                    showRideSummary, link, subs, location, task, orphan,
                    probe, alert, atLeave >>

\* the app is started afresh: every cell has its initial value (45-66)
Restart ==
    /\ twin.phase = "record"
    /\ ev = "seen"
    /\ connectedDevice' = NULL
    /\ connectionState' = "disconnected"
    /\ bikeState' = "INACTIVE"
    /\ isDevMode' = FALSE
    /\ isLoading' = FALSE
    /\ isProcessing' = FALSE
    /\ rideTime' = 0
    /\ rideCost' = 0
    /\ distance' = 0
    /\ batteryLevel' = BatteryBase
    /\ turboActive' = FALSE
    /\ turboPurchased' = FALSE
    /\ rideSummaryData' = NoSummary
    /\ showRideSummary' = FALSE
    /\ link' = FALSE
    /\ subs' = 0
    /\ location' = NoLocation
    /\ task' = Idle
    /\ orphan' = Idle
    /\ twin' = [twin EXCEPT !.phase = "replay"]
    /\ ev' = "init"
    /\ alert' = "none"
    /\ atLeave' = NoRide
    /\ UNCHANGED probe

ReplayStep ==
    /\ twin.phase = "replay"
    /\ ev \in Observed
    /\ twin.pos < Len(twin.log)
    /\ (connect(DEV_BIKE_DEVICE) \/ endRide_skipped \/ SessionStep)

\* the replay goes on while it does what the recorded session did
Compare ==
    /\ twin.phase = "replay"
    /\ ev \notin Observed
    /\ Label(ev) = twin.log[twin.pos + 1][1]
    /\ twin' = [twin EXCEPT !.pos = @ + 1]
    /\ ev' = "seen"
    /\ UNCHANGED << connectedDevice, connectionState, bikeState, isDevMode,
                    isLoading, isProcessing, rideTime, rideCost, distance,
                    batteryLevel, turboActive, turboPurchased, rideSummaryData,
                    showRideSummary, link, subs, location, task, orphan,
                    probe, alert, atLeave >>

NextTwin == RecordStep \/ Observe \/ Restart \/ ReplayStep \/ Compare

SpecTwin == InitTwin /\ [][NextTwin]_vars

\* ------------------------------------------------------------------ claims

\* C1: when the Stop or the Deactivate write fails in completeRideEnd, the
\* session ends up disconnected (connectionState 'disconnected',
\* connectedDevice null, bikeState INACTIVE) and an error is surfaced.
C1_FailedEndRideDisconnects ==
    ev = "endRideWriteFailed" =>
        /\ connectionState = "disconnected"
        /\ connectedDevice = NULL
        /\ bikeState = "INACTIVE"
        /\ alert # "none"

\* C2: once a connect has succeeded the auto-start chain ends in RIDING,
\* unless one of its writes was not acknowledged.
C2_AutoStartReachesRiding ==
    ev \in {"ackS", "autoStartNotConnected", "autoStartWriteFailed"} =>
        \/ ev = "autoStartWriteFailed"
        \/ bikeState = "RIDING"

\* C3: a link drop sets connectionState 'disconnected', connectedDevice null
\* and bikeState INACTIVE and raises the 'Bike Disconnected' alert; after it
\* connectionState leaves 'disconnected' only by a step of a connect that the
\* user started (there is no reconnect).
C3_LinkLossDisconnects ==
    [][ /\ (link /\ ~link') =>
            /\ connectionState' = "disconnected"
            /\ connectedDevice' = NULL
            /\ bikeState' = "INACTIVE"
            /\ alert' = "Bike Disconnected"
        /\ (connectionState = "disconnected" /\ connectionState' # "disconnected") =>
            /\ ev' \in {"connectStart", "connected"}
            /\ task.kind = "connect" \/ task'.kind = "connect"
        /\ (connectedDevice = NULL /\ connectedDevice' # NULL) =>
            /\ ev' = "connected"
            /\ task.kind = "connect" ]_vars

\* the link dropped while the end-ride prompt of a ride was open
C3_Witness ==
    /\ ev = "linkLost"
    /\ task.kind = "endRide" /\ task.pc = "prompt"
    /\ bikeState = "INACTIVE"
    /\ atLeave # NoRide

C5_SummaryIsLastTick ==
    ev = "rideEnded" => rideSummaryData = atLeave

\* C6: every entry into RIDING starts from the base values.
C6_RideStartsAtBase ==
    [][ (bikeState # "RIDING" /\ bikeState' = "RIDING") =>
            /\ rideTime' = 0
            /\ rideCost' = 0
            /\ distance' = 0
            /\ batteryLevel' = BatteryBase
            /\ turboActive' = FALSE
            /\ turboPurchased' = FALSE ]_vars

\* C7: within a ride the add-on surcharge is in rideCost at most once, and a
\* handleBuyTurbo while the add-on is active leaves rideCost unchanged.
TimeCost(t) == IF t = 0 THEN 0 ELSE UnlockCost + (t * PerMinuteRate) \div 60

C7_SurchargeAtMostOnce ==
    /\ [](bikeState = "RIDING" =>
            rideCost \in {TimeCost(rideTime), TimeCost(rideTime) + TurboCost})
    /\ [][ (bikeState = "RIDING" /\ turboActive /\ ev' \in {"turboRejected", "turboBought"}) =>
            rideCost' = rideCost ]_vars

\* handleBuyTurbo was invoked on a ride that already carries the surcharge
C7_Witness ==
    /\ ev = "turboRejected"
    /\ bikeState = "RIDING"
    /\ rideTime > 0
    /\ rideCost = TimeCost(rideTime) + TurboCost

\* C8: after every tick, at t seconds, rideCost = 1.00 + (t/60)*0.15 + 1.00
\* if the add-on was bought in this ride; 60 ticks give 1.15 and 2.15.
C8_CostFormula ==
    (bikeState = "RIDING" /\ rideTime >= 1) =>
        /\ rideCost = UnlockCost + (rideTime * PerMinuteRate) \div 60
                      + (IF turboPurchased THEN TurboCost ELSE 0)
        /\ rideTime = 60 => rideCost = (IF turboPurchased THEN 21500 ELSE 11500)

\* the 60th tick of a ride with the add-on
C8_Witness ==
    /\ ev = "tick"
    /\ rideTime = 60
    /\ turboPurchased
    /\ rideCost = 21500

\* C9: while the state stays RIDING, rideCost and distance never decrease and
\* batteryLevel never increases; batteryLevel is never below 0.
C9_Monotonic ==
    /\ [][ (bikeState = "RIDING" /\ bikeState' = "RIDING") =>
            /\ rideCost' >= rideCost
            /\ distance' >= distance
            /\ batteryLevel' <= batteryLevel ]_vars
    /\ [](batteryLevel >= 0)

\* a tick on an empty battery
C9_Witness ==
    /\ ev = "tick"
    /\ bikeState = "RIDING"
    /\ batteryLevel = 0
    /\ rideTime >= 2

\* C10: no Activate or Start is issued or takes effect while the user's
\* location is outside the service area.
C10_NoActivationOutside ==
    (ev \in {"writeA", "writeS", "ackA", "ackS"} /\ location # NoLocation) =>
        isInsideGeofence(location[1], location[2])

\* C11: a command is issued (written to the peripheral or simulated), and
\* acknowledged with its change of bikeState, only while the session holds an
\* open connection: connectedDevice is not null and connectionState is
\* 'connected' at that time, in dev mode as in real mode.
C11_CommandsNeedOpenConnection ==
    ev \in {"writeA", "writeS", "writeT", "writeD",
            "simA", "simS", "simT", "simD",
            "ackA", "ackS", "ackT", "ackD"} =>
        /\ connectedDevice # NULL
        /\ connectionState = "connected"

\* C12: bikeState becomes RIDING only from ACTIVATED, a Stop or a Deactivate
\* takes effect only from ACTIVATED or RIDING, and an Activate never takes
\* effect on a RIDING session.
C12_CommandsFollowStateMachine ==
    [][ /\ (bikeState # "RIDING" /\ bikeState' = "RIDING") => bikeState = "ACTIVATED"
        /\ ev' \in {"ackT", "ackD"} => bikeState \in {"ACTIVATED", "RIDING"}
        /\ ev' = "ackA" => bikeState # "RIDING" ]_vars

\* the write of lines 423-428 of a task is issued and not yet settled
OutstandingWrite(tk) == tk.pc \in {"A_write", "S_write", "T_write", "D_write"}

\* C13: at no time are two command writes outstanding on the same
\* connection (issued and neither acknowledged nor failed).
C13_OneWriteOutstanding ==
    ~ ( /\ OutstandingWrite(task)
        /\ OutstandingWrite(orphan)
        /\ task.cConn = orphan.cConn )

\* C14: a connect started while the session is connecting, connected,
\* ACTIVATED or RIDING first tears the existing connection down (the link is
\* closed, connectedDevice is null, bikeState is INACTIVE), and at most one
\* connect attempt or auto-start chain is active at a time.
C14_ConnectTearsDownFirst ==
    /\ [][ (ev' = "connectStart" /\ ( \/ connectionState # "disconnected"
                                      \/ bikeState # "INACTIVE" )) =>
               /\ ~link'
               /\ connectedDevice' = NULL
               /\ bikeState' = "INACTIVE" ]_vars
    /\ [] ~ ( /\ task.kind \in {"connect", "autoStart"}
              /\ orphan.kind = "autoStart" )

\* C15: the failure of a command write leaves bikeState, connectionState and
\* connectedDevice as they were, ends the caller's chain through its catch
\* (no write is left outstanding; the end-ride raises its alert), and is not
\* followed by another write of the same request.
C15_WriteFailureChangesNothing ==
    [][ /\ ev' \in {"autoStartWriteFailed", "endRideWriteFailed"} =>
               /\ OutstandingWrite(task)
               /\ bikeState' = bikeState
               /\ connectionState' = connectionState
               /\ connectedDevice' = connectedDevice
               /\ task'.kind = "idle"
               /\ ~isLoading'
        /\ ev' = "endRideWriteFailed" => alert' = "Error"
        /\ ev \in {"autoStartWriteFailed", "endRideWriteFailed"} =>
               ev' \notin {"writeA", "writeS", "writeT", "writeD"} ]_vars

\* the Start write failed after the Activate was acknowledged
C15_Witness ==
    /\ ev = "autoStartWriteFailed"
    /\ bikeState = "ACTIVATED"
    /\ connectionState = "connected"
    /\ task.kind = "idle"

\* C16: when the Activate write of the auto-start chain fails the session
\* stays connected with bikeState INACTIVE, the Start is not sent (the chain
\* is over) and an Alert is raised, for the real bike as for the dev bike.
C16_ActivateFailureSurfaced ==
    [][ (ev' = "autoStartWriteFailed" /\ task.pc = "A_write") =>
            /\ connectionState' = "connected"
            /\ bikeState' = "INACTIVE"
            /\ task'.kind = "idle"
            /\ alert' # "none" ]_vars

\* C17: when a connection attempt fails (the catch of connect runs) the
\* session is disconnected with connectedDevice null, bikeState is unchanged
\* and INACTIVE, the 'Connection Failed' alert is raised, no command of that
\* attempt is or will be sent, and the screen is free for a later connect.
C17_ConnectFailureDisconnects ==
    [][ ev' \in {"connectFailed", "servicesFailed"} =>
            /\ connectionState' = "disconnected"
            /\ connectedDevice' = NULL
            /\ bikeState' = bikeState
            /\ bikeState' = "INACTIVE"
            /\ alert' = "Connection Failed"
            /\ task'.kind = "idle" /\ orphan'.kind = "idle"
            /\ ~isLoading' ]_vars

\* C18: when an end-ride on the real bike has completed (Stop and Deactivate
\* written and acknowledged) the link to the bike is closed and no
\* onDeviceDisconnected callback of it stays registered, so that no later
\* link drop can reach the next session.
C18_EndRideClosesConnection ==
    [][ (ev' = "rideEnded" /\ task.cConn = LumoBike /\ ~task.cDev) =>
            /\ ~link'
            /\ subs' = 0 ]_vars

\* C19: the drop of a connection runs the link-drop handler (state reset and
\* 'Bike Disconnected' alert) once, however often connect was called for
\* the bike.
C19_HandlerRunsOnce ==
    ev = "linkLost" => HandlersRun = 1

\* C20: rideSummaryData is set and the summary modal is opened only by the
\* last step of an end-ride, which is reached only after the Stop and then the
\* Deactivate of that end-ride were acknowledged; a link loss or a failed
\* end-ride changes neither rideSummaryData nor showRideSummary.
C20_SummaryOnlyAfterEndRide ==
    [][ /\ ( \/ (rideSummaryData' # rideSummaryData /\ rideSummaryData' # NoSummary)
             \/ (~showRideSummary /\ showRideSummary') ) =>
               /\ ev' = "rideEnded"
               /\ task.kind = "endRide" /\ task.pc = "summary"
        /\ (task'.pc = "summary" /\ task.pc # "summary") =>
               /\ ev' = "ackD"
               /\ task.kind = "endRide" /\ task.pc \in {"D_sim", "D_write"}
        /\ (task'.kind = "endRide" /\ task'.pc \in {"D_sim", "D_write"}
                /\ task.pc \notin {"D_sim", "D_write"}) =>
               task.kind = "endRide" /\ task.pc = "settle"
        /\ (task'.kind = "endRide" /\ task'.pc = "settle" /\ task.pc # "settle") =>
               /\ ev' = "ackT"
               /\ task.kind = "endRide" /\ task.pc \in {"T_sim", "T_write"}
        /\ ev' \in {"linkLost", "endRideWriteFailed", "endRideNotConnected"} =>
               /\ rideSummaryData' = rideSummaryData
               /\ showRideSummary' = showRideSummary ]_vars

\* the summary of a ride of at least one tick is on screen
C20_Witness ==
    /\ ev = "rideEnded"
    /\ showRideSummary
    /\ rideSummaryData # NoSummary
    /\ rideSummaryData[1] > 0

\* C21: while the end-ride prompt of a ride is open (no photo captured yet,
\* the capture cancelled or the permission denied) the Stop/Deactivate
\* sequence can be started without a photo, in real mode as in dev mode.
C21_EndRideWithoutPhoto ==
    (task.kind = "endRide" /\ task.pc = "prompt") => ENABLED endRide_skipped

\* C23: once turboPurchased is true during a ride it stays true for as long
\* as bikeState stays RIDING, whatever step is taken (a tick, a second press
\* of the Turbo button, the end-ride prompt, a step of a pending chain).
C23_PurchaseSticks ==
    [][ (bikeState = "RIDING" /\ turboPurchased /\ bikeState' = "RIDING") =>
            turboPurchased' ]_vars

\* a tick of a ride whose Turbo was bought before an earlier tick
C23_Witness ==
    /\ ev = "tick"
    /\ bikeState = "RIDING"
    /\ turboPurchased
    /\ rideTime >= 2
    /\ rideCost = TickCost(rideTime, TRUE)
    /\ task.kind = "idle"

\* C24: for the service-area polygon and for simple polygons of at least
\* three vertices, the containment test answers inside for every grid point
\* strictly inside and outside for every grid point strictly outside, as the
\* reference membership test decides.
C24_ContainmentMatchesReference ==
    (probe.res # "none" /\ Len(probe.poly) >= 3) =>
        /\ StrictlyInside(probe.poly, probe.pt) => probe.res = "inside"
        /\ StrictlyOutside(probe.poly, probe.pt) => probe.res = "outside"

\* a point next to the south-central vertex of the service area, inside
C24_Witness ==
    /\ probe.poly = geofencePolygon
    /\ probe.pt = <<445590, -1232750>>
    /\ StrictlyInside(probe.poly, probe.pt)
    /\ probe.res = "inside"

\* C25: for a polygon of 0, 1 or 2 vertices the containment test answers
\* outside for every point.
C25_DegenerateIsOutside ==
    (probe.res # "none" /\ Len(probe.poly) < 3) => probe.res = "outside"

\* a point whose ray crosses the one edge of a two-vertex polygon
C25_Witness ==
    /\ Len(probe.poly) = 2
    /\ EdgeCrossed(probe.poly[1][1], probe.poly[1][2],
                   probe.poly[2][1], probe.poly[2][2], probe.pt[1], probe.pt[2])
    /\ probe.res = "outside"

\* C26: during a ride the distance is the number of ticks times the fixed
\* increment of 0.00278 mile, whether or not Turbo was bought; after 60 ticks
\* it is 0.1668 mile.
C26_DistanceIsLinear ==
    bikeState = "RIDING" =>
        /\ distance = rideTime * DistanceStep
        /\ rideTime = 60 => distance = 16680

\* sixty ticks into a ride with Turbo on
C26_Witness ==
    /\ ev = "tick"
    /\ rideTime = 60
    /\ turboActive
    /\ distance = 16680

\* C27: t ticks into any ride, the first or a later one, the battery level
\* is max(0, 85 - 0.05 t) percent.
C27_BatteryFollowsRideTime ==
    bikeState = "RIDING" =>
        batteryLevel = (IF BatteryBase - BatteryDrain * rideTime > 0
                        THEN BatteryBase - BatteryDrain * rideTime ELSE 0)

\* C28: a started completeRideEnd always finishes: isProcessing leads to
\* isProcessing and isLoading both false, whether the commands are
\* acknowledged, a write fails or the link drops meanwhile, and after a
\* failure that left the ride active END RIDE can be pressed again.
C28_EndRideTerminates ==
    /\ isProcessing ~> (~isProcessing /\ ~isLoading)
    /\ [](ev = "endRideWriteFailed" /\ bikeState = "RIDING" => ENABLED handleEndRide)

\* the link dropped during the sequence and the write was rejected
C28_Witness ==
    /\ ev = "endRideWriteFailed"
    /\ ~link
    /\ ~isProcessing
    /\ ~isLoading
    /\ task.kind = "idle"

\* C29: the Start of an auto-start chain is issued only after the Activate of
\* that chain was acknowledged, the Deactivate of an end-ride only after its
\* Stop was acknowledged; when the first command of a pair fails the chain
\* is over and the second is never issued.
C29_SecondAfterFirstAcknowledged ==
    [][ /\ (task'.pc \in {"S_sim", "S_write"} /\ task.pc \notin {"S_sim", "S_write"}) =>
               task.kind = "autoStart" /\ task.pc = "settle"
        /\ (task'.kind = "autoStart" /\ task'.pc = "settle" /\ task.pc # "settle") =>
               ev' = "ackA" /\ task.kind = "autoStart" /\ task.pc \in {"A_sim", "A_write"}
        /\ (task'.pc \in {"D_sim", "D_write"} /\ task.pc \notin {"D_sim", "D_write"}) =>
               task.kind = "endRide" /\ task.pc = "settle"
        /\ (task'.kind = "endRide" /\ task'.pc = "settle" /\ task.pc # "settle") =>
               ev' = "ackT" /\ task.kind = "endRide" /\ task.pc \in {"T_sim", "T_write"}
        /\ (task.pc \in {"A_write", "T_write"}
                /\ ev' \in {"autoStartWriteFailed", "endRideWriteFailed"}) =>
               task'.kind = "idle" ]_vars

\* the Deactivate of an end-ride is being written, its Stop has taken effect
C29_Witness ==
    /\ ev = "writeD"
    /\ task.kind = "endRide" /\ task.pc = "D_write"
    /\ bikeState = "ACTIVATED"
    /\ isProcessing

C22_SimulatorMatchesBike ==
    /\ (twin.phase = "replay" /\ ev \notin Observed
            /\ Label(ev) = twin.log[twin.pos + 1][1]) =>
           Obs = twin.log[twin.pos + 1][2]
    /\ (twin.phase = "replay" /\ ev \in Observed /\ twin.pos < Len(twin.log)) =>
           ENABLED (ReplayStep /\ Label(ev') = twin.log[twin.pos + 1][1])

\* a whole recorded ride with a Turbo purchase was replayed to its end
C22_Witness ==
    /\ twin.phase = "replay"
    /\ twin.pos = Len(twin.log)
    /\ twin.log[twin.pos][1] = "rideEnded"
    /\ \E i \in 1..Len(twin.log) : twin.log[i][1] = "turboBought"
    /\ ev = "seen"
    /\ showRideSummary

\* C31: whenever bikeState is RIDING a device is connected: connectedDevice
\* is not null and connectionState is 'connected'.
C31_RidingHasDevice ==
    bikeState = "RIDING" => connectedDevice # NULL /\ connectionState = "connected"

\* C32: connectedDevice is not null exactly when connectionState is
\* 'connected'.
C32_DeviceIffConnected ==
    connectedDevice # NULL <=> connectionState = "connected"

\* C33: after every connect attempt, whether it succeeds, fails or its
\* auto-start fails, isLoading becomes false again.
C33_LoadingEnds ==
    (task.kind \in {"connect", "autoStart"}) ~> ~isLoading

\* the auto-start of a connect threw and the overlay is gone
C33_Witness ==
    /\ ev = "autoStartNotConnected"
    /\ connectionState = "connected"
    /\ task.kind = "idle"
    /\ ~isLoading

\* C34: turboActive and turboPurchased are always equal.
C34_TurboFlagsAgree ==
    turboActive = turboPurchased

\* C35: the battery level is always between 0 and 85 percent.
C35_BatteryInRange ==
    0 <= batteryLevel /\ batteryLevel <= BatteryBase

\* Turbo was bought during a ride that had ticked
C34_Witness ==
    /\ ev = "turboBought"
    /\ turboActive /\ turboPurchased
    /\ rideTime >= 1

\* a ride that began on a nearly empty battery was ended: back at 85
C35_Witness ==
    /\ ev = "rideEnded"
    /\ batteryLevel = BatteryBase
    /\ rideSummaryData # NoSummary

====
